---- MODULE Spec2Model ----
(***************************************************************************)
(* A state-machine model of the ACME server of node-acme:                  *)
(*   lib/acme-server.js  the protocol engine (ACMEServer, DB, the entity   *)
(*                       classes Registration, Application, Authorization, *)
(*                       Certificate, and the CA wrapper)                  *)
(*   lib/pki.js          checkCSR, getNextSerialNumber, issueCRT           *)
(* The object store is the state; every request handler is an action.      *)
(* A synchronous handler is one action.  updateAuthz runs as a promise     *)
(* chain and is split at the links of the chain with a program counter; no *)
(* other request is dispatched between two links, since the promises the   *)
(* chain waits for are already resolved.                                   *)
(***************************************************************************)
EXTENDS Integers, Sequences, FiniteSets, TLC

VARIABLES
  now,               \* the wall clock read by new Date()
  autoChallenge,     \* options.autoChallenge (policy.challenges.auto)
  caOk,              \* whether options.caKey / options.caCert are usable PEM
  reg,               \* db.store['reg']   : thumbprint -> Registration
  app,               \* db.store['app']   : sequence of Application, id = index
  authz,             \* db.store['authz'] : sequence of Authorization, id = index
  cert,              \* db.store['cert']  : sequence of Certificate, id = index
  nextSerialNumber,  \* pki.js module variable
  pc,                \* position inside the handler being run ("idle": none)
  cur,               \* the request the running handler serves
  issued,            \* nonce pool: nonces handed out
  consumed,          \* nonce pool: nonces already used
  nextNonce,         \* nonce pool: source of fresh nonces
  post,              \* transport: POSTs in flight, slot -> [nonce, st]
  passed,            \* transport: how many POSTs passed the check, per nonce
  arg,               \* the argument of a library function called on its own
  ret                \* what that call returned (NoCall: not called yet)

vars == <<now, autoChallenge, caOk, reg, app, authz, cert, nextSerialNumber,
          pc, cur, issued, consumed, nextNonce, post, passed, arg, ret>>

engineVars == <<now, autoChallenge, caOk, reg, app, authz, cert,
                nextSerialNumber, pc, cur>>

nonceVars == <<issued, consumed, nextNonce, post, passed>>

callVars == <<arg, ret>>

(***************************************************************************)
(* Bounds of the model.                                                    *)
(***************************************************************************)
MaxApps == 2
MaxCerts == 1
MaxTime == 2
MaxNonce == 2

\* The POSTs that can be in flight at once.
Slots == 1..2

\* options.authzExpirySeconds, in ticks of the model's clock
AuthzExpiry == 1

\* Account keys (JWKs) and their thumbprints.
JWKs == {"jwkA", "jwkB"}

Thumbprint(jwk) == IF jwk = "jwkA" THEN "tpA" ELSE "tpB"

Thumbprints == {Thumbprint(k) : k \in JWKs}

\* DNS names requested in new-app payloads.
Names == {"a.test", "b.test"}

\* The new-app requests of the model: the account key that signs and the
\* payload, which has identifiers[*].value or lacks the field.
\* notBefore and notAfter are strings, "" when the payload lacks the field.
NewAppPayloadDated(has, ids, notBefore, notAfter) ==
  [hasIdentifiers |-> has, identifiers |-> ids, notBefore |-> notBefore,
   notAfter |-> notAfter]

NewAppPayload(has, ids) == NewAppPayloadDated(has, ids, "", "")

NewAppRequests ==
  {[jwk |-> "jwkA", payload |-> NewAppPayload(TRUE, <<"a.test">>)],
   [jwk |-> "jwkA", payload |-> NewAppPayload(TRUE, <<"a.test", "b.test">>)],
   [jwk |-> "jwkA", payload |-> NewAppPayload(TRUE, <<>>)],
   [jwk |-> "jwkA", payload |-> NewAppPayload(FALSE, <<>>)]}

Contacts == {"mailto:a"}

\* options.terms, the terms-of-service URL of the server
Terms == "terms"

\* The update-reg payloads of the model; "" stands for a field that the
\* payload lacks.
UpdateRegPayloads ==
  {[contact |-> c, agreement |-> a] :
     c \in {"", "mailto:b"}, a \in {"", Terms, "other-terms"}}

\* The date strings of the model, and whether new Date(v) is a valid date
Dates == {"2026-01-01T00:00:00Z", "not-a-date"}

IsDate(v) == v = "2026-01-01T00:00:00Z"

\* The new-app requests of both accounts, with and without dates.
DatedNewAppRequests ==
  NewAppRequests
    \cup {[jwk |-> "jwkB", payload |-> NewAppPayload(TRUE, <<"a.test">>)],
          [jwk |-> "jwkA",
           payload |-> NewAppPayload(TRUE, <<"a.test", "a.test">>)]}
    \cup {[jwk |-> "jwkA",
           payload |-> NewAppPayloadDated(TRUE, <<"b.test">>, nb, na)] :
            nb \in Dates \cup {""}, na \in Dates \cup {""}}

\* No handler is running.
None == [op |-> "none", id |-> 0, index |-> 0, step |-> 0, done |-> <<>>]

\* The value of arg and ret while there is no call
NoCall == [kind |-> "none"]

\* makeURL: <base>/<type>/<id>
makeURL(type, id) == <<type, id>>

\* What a handler wrote to its res object: the status code (200 unless set),
\* whether the response was sent (res.send, res.json or res.end was called),
\* the Location header (<<>>: none) and the body.
Response(code, sent, location, body) ==
  [code |-> code, sent |-> sent, location |-> location, body |-> body]

NoBody == [kind |-> "none"]

\* problem(type, title, description)
problem(type) == [kind |-> "problem", type |-> type]

(***************************************************************************)
(* Entities.                                                               *)
(***************************************************************************)
\* The constructor as it would be with id and jwk taken in the other order
RegistrationSwapped(id, jwk, contact) ==
  [id |-> jwk, status |-> "good", key |-> id, contact |-> contact,
   agreement |-> ""]

\* new Registration(id, jwk, contact)
Registration(id, jwk, contact) ==
  [id |-> id, status |-> "good", key |-> jwk, contact |-> contact,
   agreement |-> ""]

\* new Application(server, thumbprint); the id is the index it is stored at
Application(thumbprint) ==
  [status |-> "pending", thumbprint |-> thumbprint, requirements |-> <<>>,
   certificate |-> <<>>, notBefore |-> "", notAfter |-> ""]

\* Application.marshal of the order stored under id
ApplicationMarshal(o, id) ==
  [kind |-> "app", status |-> o.status, notBefore |-> o.notBefore,
   notAfter |-> o.notAfter, requirements |-> o.requirements,
   authorizations |-> [i \in 1..Len(o.requirements) |-> o.requirements[i].url],
   certificate |-> o.certificate,
   finalize |-> <<makeURL("app", id), "finalize">>]

\* markAsReady as it would be if it never promoted an order
markAsReadyNever(o) == o

\* Application.markAsReady
markAsReady(o) ==
  IF o.status = "pending"
  THEN LET unfulfilled ==
             {i \in 1..Len(o.requirements) : o.requirements[i].status # "valid"}
       IN IF unfulfilled = {} THEN [o EXCEPT !.status = "ready"] ELSE o
  ELSE o

\* Authorization.update at wall-clock time t
AuthorizationUpdate(a, t) ==
  LET challenges == a.challengeObj
      validChallenges ==
        {i \in 1..Len(challenges) : challenges[i] = "valid"}
  IN [a EXCEPT !.challenges = challenges,
               !.status = IF a.expires < t THEN "invalid"
                          ELSE IF validChallenges # {} THEN "valid"
                          ELSE @]

\* new Authorization(server, thumbprint, name, scope) at time t
Authorization(thumbprint, name, t, auto) ==
  AuthorizationUpdate(
    [status |-> "pending", thumbprint |-> thumbprint, name |-> name,
     expires |-> t + AuthzExpiry,
     challengeObj |-> IF auto THEN <<"pending">> ELSE <<>>,
     challenges |-> <<>>], t)

\* asRequirement as it would be if it gave the URL of the first stored
\* authorization
asRequirementOfFirst(a, id) ==
  [type |-> "authorization", status |-> a.status, url |-> <<"authz", 1>>]

\* Authorization.asRequirement of the authorization stored under id
asRequirement(a, id) ==
  [type |-> "authorization", status |-> a.status, url |-> makeURL("authz", id)]

\* The JSON of challenge index (0-based) as authz.challenges holds it
challengeJSON(a, id, index) ==
  [kind |-> "challenge", type |-> "auto", status |-> a.challenges[index + 1],
   url |-> <<makeURL("authz", id), index>>]

\* Authorization.marshal, after its call of update()
AuthorizationMarshal(a, id) ==
  [kind |-> "authz", identifier |-> a.name, status |-> a.status,
   expires |-> a.expires, challenges |-> a.challenges]

\* Registration.marshal
RegistrationMarshal(r) ==
  [kind |-> "reg", key |-> r.key, status |-> r.status, contact |-> r.contact,
   agreement |-> r.agreement]

(***************************************************************************)
(* DB                                                                      *)
(***************************************************************************)
\* authzFor as it would be if it found no stored authorization
authzForNothing(store, thumbprint, name) == 0

\* DB.authzFor: the first stored authorization of that thumbprint and name
authzFor(store, thumbprint, name) ==
  LET found == {i \in 1..Len(store) :
                  store[i].thumbprint = thumbprint /\ store[i].name = name}
  IN IF found = {} THEN 0
     ELSE CHOOSE i \in found : \A j \in found : i <= j

\* updateAppsFor as it would be if it skipped no order of another account
updateAppsForAnyAccount(apps, a, id) ==
  [i \in 1..Len(apps) |->
     markAsReady(
       [apps[i] EXCEPT !.requirements =
          [r \in 1..Len(@) |->
             IF @[r].type = "authorization" /\ @[r].url = <<"authz", id>>
             THEN [@[r] EXCEPT !.status = a.status]
             ELSE @[r]]])]

\* DB.updateAppsFor(authz), authz stored under id
updateAppsFor(apps, a, id) ==
  [i \in 1..Len(apps) |->
     IF apps[i].thumbprint # a.thumbprint THEN apps[i]
     ELSE markAsReady(
            [apps[i] EXCEPT !.requirements =
               [r \in 1..Len(@) |->
                  IF @[r].type = "authorization"
                     /\ @[r].url = makeURL("authz", id)
                  THEN [@[r] EXCEPT !.status = a.status]
                  ELSE @[r]]])]

(***************************************************************************)
(* pki.js                                                                  *)
(***************************************************************************)
\* String.prototype.toLowerCase on the strings of the model
Lower(v) == IF v = "A.TEST" THEN "a.test" ELSE v

\* v.match(DNS_RE): of the strings of the model, these match the pattern
MatchesDNS(v) == v \in {"a.test", "b.test"}

\* The loop over csr.subject.attributes: the value of commonName after the
\* attributes from position i on ("" stands for undefined)
RECURSIVE subjectCommonName(_, _, _)
subjectCommonName(attrs, i, commonName) ==
  IF i > Len(attrs) THEN commonName
  ELSE IF attrs[i].name # "commonName"
       THEN subjectCommonName(attrs, i + 1, commonName)
  ELSE IF commonName # ""
       THEN subjectCommonName(attrs, i + 1, commonName)
  ELSE subjectCommonName(attrs, i + 1, Lower(attrs[i].value))

\* The loop over csr.attributes: the value of extensions
RECURSIVE requestedExtensions(_, _, _)
requestedExtensions(attrs, i, extensions) ==
  IF i > Len(attrs) THEN extensions
  ELSE IF attrs[i].name # "extensionRequest"
       THEN requestedExtensions(attrs, i + 1, extensions)
  ELSE IF Len(extensions) > 0
       THEN requestedExtensions(attrs, i + 1, extensions)
  ELSE requestedExtensions(attrs, i + 1, attrs[i].extensions)

\* The loop over extensions: the value of sans
RECURSIVE subjectAltNames(_, _, _)
subjectAltNames(extensions, i, sans) ==
  IF i > Len(extensions) THEN sans
  ELSE IF extensions[i].name # "subjectAltName"
       THEN subjectAltNames(extensions, i + 1, sans)
  ELSE IF Len(sans) > 0
       THEN subjectAltNames(extensions, i + 1, sans)
  ELSE subjectAltNames(extensions, i + 1, extensions[i].altNames)

\* names[name] = true on an object whose keys are kept in insertion order
AddName(nameList, name) ==
  IF \E j \in 1..Len(nameList) : nameList[j] = name THEN nameList
  ELSE Append(nameList, name)

\* The loop over sans: the keys of names
RECURSIVE sanNames(_, _, _)
sanNames(sans, i, nameList) ==
  IF i > Len(sans) THEN nameList
  ELSE IF sans[i].type # 2 THEN sanNames(sans, i + 1, nameList)
  ELSE IF ~MatchesDNS(Lower(sans[i].value))
       THEN sanNames(sans, i + 1, nameList)
  ELSE sanNames(sans, i + 1, AddName(nameList, Lower(sans[i].value)))

\* checkCSR on a CSR that parses: {names: [...]} or {error: ...}
checkCSR(csr) ==
  LET commonName == subjectCommonName(csr.subject, 1, "")
      extensions == requestedExtensions(csr.attributes, 1, <<>>)
      sans == subjectAltNames(extensions, 1, <<>>)
      nameList == sanNames(sans, 1,
                           IF commonName # "" THEN <<commonName>> ELSE <<>>)
  IN IF Len(nameList) = 0
     THEN [error |-> "No names in CSR", names |-> <<>>]
     ELSE [error |-> "", names |-> nameList]

HexDigits ==
  <<"0", "1", "2", "3", "4", "5", "6", "7", "8", "9",
    "a", "b", "c", "d", "e", "f">>

\* Number.prototype.toString(16)
RECURSIVE toString16(_)
toString16(n) ==
  IF n < 16 THEN <<HexDigits[n + 1]>>
  ELSE Append(toString16(n \div 16), HexDigits[(n % 16) + 1])

\* getNextSerialNumber as it would be without the leading '0'
getNextSerialNumberUnpadded(n) == toString16(n)

\* getNextSerialNumber: the string returned when the counter stands at n
getNextSerialNumber(n) ==
  LET ser == toString16(n)
  IN IF Len(ser) % 2 = 1 THEN <<"0">> \o ser ELSE ser

\* csr.getAttribute({name: 'extensionRequest'}): the first such attribute
extensionRequest(csr) ==
  LET found == {i \in 1..Len(csr.attributes) :
                  csr.attributes[i].name = "extensionRequest"}
  IN IF found = {} THEN <<>>
     ELSE csr.attributes[CHOOSE i \in found : \A j \in found : i <= j].extensions

\* issueCRT: the certificate signed for csr when the serial counter stands at n
issueCRT(csr, n) ==
  [kind |-> "der", serial |-> getNextSerialNumber(n), subject |-> csr.subject,
   extensions |-> extensionRequest(csr)]

\* The CSRs that requests carry in payload.csr.
CN(v) == [name |-> "commonName", value |-> v]

SAN(alt) ==
  [name |-> "extensionRequest",
   extensions |-> <<[name |-> "subjectAltName", altNames |-> alt]>>]

csrMissing == [kind |-> "missing", subject |-> <<>>, attributes |-> <<>>]

csrGarbage == [kind |-> "garbage", subject |-> <<>>, attributes |-> <<>>]

csrTwoNames ==
  [kind |-> "csr", subject |-> <<CN("a.test")>>,
   attributes |-> <<SAN(<<[type |-> 2, value |-> "a.test"],
                          [type |-> 2, value |-> "b.test"]>>)>>]

csrIpSAN ==
  [kind |-> "csr", subject |-> <<CN("a.test")>>,
   attributes |-> <<SAN(<<[type |-> 7, value |-> "10.0.0.1"]>>)>>]

csrNoNames == [kind |-> "csr", subject |-> <<>>, attributes |-> <<>>]

(***************************************************************************)
(* Initial state: a freshly constructed server.                            *)
(***************************************************************************)
InitNonce ==
  /\ issued = {}
  /\ consumed = {}
  /\ nextNonce = 1
  /\ post = [s \in Slots |-> [nonce |-> 0, st |-> "free"]]
  /\ passed = [n \in 1..MaxNonce |-> 0]

\* The server as src/server.js configures it: the auto challenge enabled and
\* a CA key and certificate that load.
InitEngine ==
  /\ now = 0
  /\ autoChallenge = TRUE
  /\ caOk = TRUE
  /\ reg = << >>
  /\ app = << >>
  /\ authz = << >>
  /\ cert = << >>
  /\ nextSerialNumber = 1
  /\ pc = "idle"
  /\ cur = None

\* No library function is called on its own.
InitCall ==
  /\ arg = NoCall
  /\ ret = NoCall

Init == InitEngine /\ InitNonce /\ InitCall

(***************************************************************************)
(* A handler maps the stored objects (and pki.js's serial counter) to the  *)
(* response it writes and the stored objects it leaves.                    *)
(***************************************************************************)
Store ==
  [reg |-> reg, app |-> app, authz |-> authz, cert |-> cert,
   nextSerialNumber |-> nextSerialNumber]

Result(resp, st) == [resp |-> resp, st |-> st]

Commit(st) ==
  /\ reg' = st.reg
  /\ app' = st.app
  /\ authz' = st.authz
  /\ cert' = st.cert
  /\ nextSerialNumber' = st.nextSerialNumber

\* db.get(Registration.type, thumbprint) is truthy
Registered(st, thumbprint) == thumbprint \in DOMAIN st.reg

unauthorized(st) == Result(Response(401, TRUE, <<>>, problem("unauthorized")), st)

\* db.store and each db.store[type] are plain objects ({}), so a lookup
\* store[type][id] also finds the properties that every object inherits from
\* Object.prototype ("constructor", "toString", ...): functions, truthy, and
\* no entities.  InheritedId is the id that stands for such a name: the
\* string "constructor" among the thumbprints, and 0 among the numbered ids.
InheritedId(type) == IF type = "reg" THEN "constructor" ELSE 0

\* store[type] exists: some object of that type was put
TypeStored(st, type) ==
  CASE type = "reg" -> DOMAIN st.reg # {}
    [] type = "app" -> Len(st.app) > 0
    [] type = "authz" -> Len(st.authz) > 0
    [] type = "cert" -> Len(st.cert) > 0
    [] OTHER -> FALSE

\* db.get(type, id) returns an inherited property
Inherited(st, type, id) == TypeStored(st, type) /\ id = InheritedId(type)

(***************************************************************************)
(* The clock.                                                              *)
(***************************************************************************)
Tick ==
  /\ now < MaxTime
  /\ now' = now + 1
  /\ UNCHANGED <<autoChallenge, caOk, reg, app, authz, cert,
                 nextSerialNumber, pc, cur>>
  /\ UNCHANGED <<nonceVars, callVars>>

(***************************************************************************)
(* POST /new-acct                                                          *)
(***************************************************************************)
\* newReg as it would be if it did not look for an existing registration
newRegResultOverwrites(st, jwk, contact) ==
  [resp |-> [code |-> 201, sent |-> TRUE,
             location |-> <<"reg", Thumbprint(jwk)>>,
             body |-> [kind |-> "reg", key |-> jwk, status |-> "good",
                       contact |-> contact, agreement |-> ""]],
   st |-> [st EXCEPT !.reg =
             [t \in DOMAIN @ \cup {Thumbprint(jwk)} |->
                IF t = Thumbprint(jwk)
                THEN [id |-> t, status |-> "good", key |-> jwk,
                      contact |-> contact, agreement |-> ""]
                ELSE @[t]]]]

newRegResult(st, jwk, contact) ==
  LET thumbprint == Thumbprint(jwk)
      r == Registration(thumbprint, jwk, contact)
  IN IF Registered(st, thumbprint)
     THEN Result(Response(200, TRUE, makeURL("reg", thumbprint), NoBody), st)
     ELSE Result(Response(201, TRUE, makeURL("reg", thumbprint),
                          RegistrationMarshal(r)),
                 [st EXCEPT !.reg = [t \in DOMAIN @ \cup {thumbprint} |->
                                       IF t = thumbprint THEN r ELSE @[t]]])

newReg(jwk, contact) ==
  /\ pc = "idle"
  /\ Commit(newRegResult(Store, jwk, contact).st)
  /\ UNCHANGED <<now, autoChallenge, caOk, pc, cur>>
  /\ UNCHANGED <<nonceVars, callVars>>

(***************************************************************************)
(* POST /reg/:id                                                           *)
(***************************************************************************)
\* The checks of updateReg as they would be if the id of the URL were not
\* compared with the thumbprint
updateRegChecksUnbound(st, jwk, id) ==
  IF Thumbprint(jwk) \notin DOMAIN st.reg THEN 401 ELSE 0

\* The checks of updateReg: the status code of the check that fails, or 0
\* when both pass
updateRegChecks(st, jwk, id) ==
  IF ~Registered(st, Thumbprint(jwk)) THEN 401
  ELSE IF id # Thumbprint(jwk) THEN 401
  ELSE 0

\* updateReg.  reg is the stored object: the contact is written to it
\* before the agreement is compared with the terms.
updateRegResult(st, jwk, id, payload) ==
  LET thumbprint == Thumbprint(jwk)
      contacted == IF payload.contact # ""
                   THEN [st EXCEPT !.reg[thumbprint].contact = payload.contact]
                   ELSE st
      agreed == IF payload.agreement # ""
                THEN [contacted EXCEPT
                        !.reg[thumbprint].agreement = payload.agreement]
                ELSE contacted
  IN IF updateRegChecks(st, jwk, id) # 0 THEN unauthorized(st)
     ELSE IF payload.agreement # "" /\ payload.agreement # Terms
          THEN Result(Response(400, TRUE, <<>>, problem("malformed")),
                      contacted)
     ELSE Result(Response(200, TRUE, <<>>,
                          RegistrationMarshal(agreed.reg[thumbprint])),
                 agreed)

updateReg(jwk, id, payload) ==
  /\ pc = "idle"
  /\ Commit(updateRegResult(Store, jwk, id, payload).st)
  /\ UNCHANGED <<now, autoChallenge, caOk, pc, cur>>
  /\ UNCHANGED <<nonceVars, callVars>>

(***************************************************************************)
(* POST /new-app                                                           *)
(***************************************************************************)
\* The loop "for (let name of names)" of newApp and of finalizeOrder: the
\* authorizations stored and the requirements pushed once the names from
\* position i on have been handled.
RECURSIVE assembleRequirements(_, _, _, _, _, _, _)
assembleRequirements(store, reqs, thumbprint, names, i, t, auto) ==
  IF i > Len(names) THEN [store |-> store, reqs |-> reqs]
  ELSE LET found == authzFor(store, thumbprint, names[i])
           store2 == IF found = 0
                     THEN Append(store,
                                 Authorization(thumbprint, names[i], t, auto))
                     ELSE store
           id == IF found = 0 THEN Len(store2) ELSE found
       IN assembleRequirements(store2,
                               Append(reqs, asRequirement(store2[id], id)),
                               thumbprint, names, i + 1, t, auto)

\* newApp as it would be if it stored the stub order before any validation
newAppResultStoresFirst(st, jwk, payload, t, auto) ==
  [resp |-> [code |-> IF Thumbprint(jwk) \in DOMAIN st.reg THEN 400 ELSE 401,
             sent |-> TRUE, location |-> <<>>,
             body |-> [kind |-> "problem", type |-> "malformed"]],
   st |-> [st EXCEPT !.app = Append(@, Application(Thumbprint(jwk)))]]

newAppResult(st, jwk, payload, t, auto) ==
  LET thumbprint == Thumbprint(jwk)
      r == assembleRequirements(st.authz, <<>>, thumbprint,
                                payload.identifiers, 1, t, auto)
      o == [Application(thumbprint) EXCEPT !.requirements = r.reqs,
                                           !.notBefore = payload.notBefore,
                                           !.notAfter = payload.notAfter]
      id == Len(st.app) + 1
      malformed == \/ ~payload.hasIdentifiers
                   \/ payload.notBefore # "" /\ ~IsDate(payload.notBefore)
                   \/ payload.notAfter # "" /\ ~IsDate(payload.notAfter)
  IN IF ~Registered(st, thumbprint) THEN unauthorized(st)
     ELSE IF malformed
          THEN Result(Response(400, TRUE, <<>>, problem("malformed")), st)
     ELSE Result(Response(201, TRUE, makeURL("app", id),
                          ApplicationMarshal(o, id)),
                 [st EXCEPT !.authz = r.store, !.app = Append(@, o)])

newApp(jwk, payload) ==
  LET r == newAppResult(Store, jwk, payload, now, autoChallenge)
  IN /\ pc = "idle"
     /\ Len(r.st.app) <= MaxApps
     /\ Commit(r.st)
     /\ UNCHANGED <<now, autoChallenge, caOk, pc, cur>>
     /\ UNCHANGED <<nonceVars, callVars>>

(***************************************************************************)
(* POST /app/:id/finalize                                                  *)
(***************************************************************************)
\* The CSRs of the model, numbered, so that a request names one by number.
CsrTable == <<csrMissing, csrGarbage, csrTwoNames, csrIpSAN, csrNoNames>>

\* The finalize requests of the model: the account key that signs and the
\* number of the CSR sent.
FinalizeRequests ==
  {[jwk |-> "jwkA", csr |-> c] : c \in 1..Len(CsrTable)}

\* The try block of finalizeOrder: "" when the CSR is accepted, else the
\* message of the error caught
csrError(csr) ==
  IF csr.kind = "missing" THEN "CSR must be provided"
  ELSE IF csr.kind = "garbage" THEN "parse error"
  ELSE checkCSR(csr).error

\* finalizeOrder. The handler is synchronous: it writes "processing", checks
\* the CSR and then either reverts to "ready" and answers 400, or issues.
\* issueCRT throws when the CA material does not load, after it has taken a
\* serial number: the handler ends there, the authorizations stored, and the
\* framework answers 500.
finalizeOrderResult(st, jwk, id, csr, t, auto, ca) ==
  LET thumbprint == Thumbprint(jwk)
      processing == [st EXCEPT !.app[id].status = "processing"]
      names == checkCSR(csr).names
      store == assembleRequirements(st.authz, <<>>, thumbprint, names, 1, t,
                                    auto).store
      certId == Len(st.cert) + 1
      issued_ == [processing EXCEPT
                    !.authz = store,
                    !.cert = Append(@, [body |-> issueCRT(csr,
                                                   st.nextSerialNumber)]),
                    !.nextSerialNumber = @ + 1,
                    !.app[id].status = "valid",
                    !.app[id].certificate = makeURL("cert", certId)]
  IN IF ~Registered(st, thumbprint) THEN unauthorized(st)
     ELSE IF id \notin 1..Len(st.app)
          THEN Result(Response(404, FALSE, <<>>, NoBody), st)
     ELSE IF csrError(csr) # ""
          THEN Result(Response(400, TRUE, <<>>, problem("malformed")),
                      [processing EXCEPT !.app[id].status = "ready"])
     ELSE IF ~ca
          THEN Result(Response(500, TRUE, <<>>, NoBody),
                      [processing EXCEPT !.authz = store,
                                         !.nextSerialNumber = @ + 1])
     ELSE Result(Response(201, TRUE, makeURL("app", id),
                          ApplicationMarshal(issued_.app[id], id)),
                 issued_)

\* finalizeOrder while the certificate store holds at most maxCerts
finalizeOrderWithin(jwk, id, c, maxCerts) ==
  LET r == finalizeOrderResult(Store, jwk, id, CsrTable[c], now,
                               autoChallenge, caOk)
  IN /\ pc = "idle"
     /\ Len(r.st.cert) <= maxCerts
     /\ Commit(r.st)
     /\ UNCHANGED <<now, autoChallenge, caOk, pc, cur>>
     /\ UNCHANGED <<nonceVars, callVars>>

finalizeOrder(jwk, id, c) == finalizeOrderWithin(jwk, id, c, MaxCerts)

(***************************************************************************)
(* POST /authz/:id/:index                                                  *)
(***************************************************************************)
\* "index in authz.challenges", for a 0-based index
IndexIn(index, challenges) == index >= 0 /\ index < Len(challenges)

\* The checks of updateAuthz: the response of the check that fails, or code 0
\* when all pass.  For an inherited id authz is a function, authz.challenges
\* is undefined, "index in undefined" throws and the framework answers 500.
updateAuthzChecks(st, jwk, id, index) ==
  LET thumbprint == Thumbprint(jwk)
  IN IF Inherited(st, "authz", id) THEN Response(500, TRUE, <<>>, NoBody)
     ELSE IF id \notin 1..Len(st.authz)
             \/ ~IndexIn(index, st.authz[id].challenges)
     THEN Response(404, TRUE, <<>>, NoBody)
     ELSE IF ~Registered(st, thumbprint) THEN unauthorized(st).resp
     ELSE IF st.reg[thumbprint].id # st.authz[id].thumbprint
          THEN unauthorized(st).resp
     ELSE Response(0, FALSE, <<>>, NoBody)

\* The update hook of the auto challenge
autoChallengeUpdate(a, index) == [a EXCEPT !.challengeObj[index + 1] = "valid"]

\* The chain as it would be if the response were sent before the orders
\* are updated
updateAuthzChainRespondsEarly == <<"update", "respond", "apps">>

\* The continuations chained on the promise that the hook returns, in the
\* order in which they are chained.
updateAuthzChain == <<"update", "apps", "respond">>

\* updateAuthz up to the call of the challenge's update hook, which for the
\* auto challenge sets the challenge's status before it returns its promise
updateAuthz(jwk, id, index) ==
  /\ pc = "idle"
  /\ IF updateAuthzChecks(Store, jwk, id, index).code # 0
     THEN UNCHANGED <<authz, pc, cur>>
     ELSE /\ authz' = [authz EXCEPT ![id] = autoChallengeUpdate(@, index)]
          /\ pc' = "updateAuthz"
          /\ cur' = [op |-> "updateAuthz", id |-> id, index |-> index,
                     step |-> 1, done |-> <<"hook">>]
  /\ UNCHANGED <<now, autoChallenge, caOk, reg, app, cert, nextSerialNumber>>
  /\ UNCHANGED <<nonceVars, callVars>>

\* What the last continuation sends
updateAuthzResponse(st, id, index) ==
  Response(200, TRUE, <<>>, challengeJSON(st.authz[id], id, index))

\* The next continuation of updateAuthz's promise chain
updateAuthzThen ==
  LET id == cur.id
      what == updateAuthzChain[cur.step]
      last == cur.step = Len(updateAuthzChain)
  IN /\ pc = "updateAuthz"
     /\ pc' = IF last THEN "idle" ELSE pc
     /\ cur' = IF last THEN None
               ELSE [cur EXCEPT !.step = @ + 1, !.done = Append(@, what)]
     /\ \/ /\ what = "update"
           /\ authz' = [authz EXCEPT ![id] = AuthorizationUpdate(@, now)]
           /\ UNCHANGED app
        \/ /\ what = "apps"
           /\ app' = updateAppsFor(app, authz[id], id)
           /\ UNCHANGED authz
        \/ /\ what = "respond"
           /\ UNCHANGED <<app, authz>>
     /\ UNCHANGED <<now, autoChallenge, caOk, reg, cert, nextSerialNumber>>
     /\ UNCHANGED <<nonceVars, callVars>>

(***************************************************************************)
(* GET /:type/:id and GET /authz/:id/:index                                *)
(***************************************************************************)
Types == {"reg", "app", "authz", "cert", "foo"}

\* db.get(type, id) is an object that was put under (type, id)
Stored(st, type, id) ==
  CASE type = "reg" -> id \in DOMAIN st.reg
    [] type = "app" -> id \in 1..Len(st.app)
    [] type = "authz" -> id \in 1..Len(st.authz)
    [] type = "cert" -> id \in 1..Len(st.cert)
    [] OTHER -> FALSE

\* fetch; marshal() of an authorization calls its update().  For an inherited
\* id db.get returns a function, body.marshal is undefined, the call throws
\* and the framework answers 500.
fetchResult(st, type, id, t) ==
  LET updated == IF type = "authz" /\ Stored(st, type, id)
                 THEN [st EXCEPT !.authz[id] = AuthorizationUpdate(@, t)]
                 ELSE st
      body == CASE type = "app" -> ApplicationMarshal(st.app[id], id)
                [] type = "authz" ->
                     AuthorizationMarshal(updated.authz[id], id)
                [] type = "cert" -> st.cert[id].body
                [] OTHER -> NoBody
  IN IF Inherited(st, type, id)
     THEN Result(Response(500, TRUE, <<>>, NoBody), st)
     ELSE IF type = "reg"
     THEN Result(Response(401, TRUE, <<>>, problem("unauthorized")), updated)
     ELSE IF ~Stored(st, type, id)
          THEN Result(Response(404, TRUE, <<>>, NoBody), updated)
     ELSE Result(Response(200, TRUE, <<>>, body), updated)

fetch(type, id) ==
  /\ pc = "idle"
  /\ Commit(fetchResult(Store, type, id, now).st)
  /\ UNCHANGED <<now, autoChallenge, caOk, pc, cur>>
  /\ UNCHANGED <<nonceVars, callVars>>

\* fetchChallenge: after update(), challenges[0].status = 'valid' is written
\* to the array that update() built.  For an inherited id "index in
\* authz.challenges" throws, as in updateAuthz.
fetchChallengeResult(st, id, index, t) ==
  LET a == [AuthorizationUpdate(st.authz[id], t) EXCEPT
              !.challenges[1] = "valid"]
  IN IF Inherited(st, "authz", id)
     THEN Result(Response(500, TRUE, <<>>, NoBody), st)
     ELSE IF id \notin 1..Len(st.authz)
             \/ ~IndexIn(index, st.authz[id].challenges)
     THEN Result(Response(404, TRUE, <<>>, NoBody), st)
     ELSE Result(Response(200, TRUE, <<>>, challengeJSON(a, id, index)),
                 [st EXCEPT !.authz[id] = a])

fetchChallenge(id, index) ==
  /\ pc = "idle"
  /\ Commit(fetchChallengeResult(Store, id, index, now).st)
  /\ UNCHANGED <<now, autoChallenge, caOk, pc, cur>>
  /\ UNCHANGED <<nonceVars, callVars>>

(***************************************************************************)
(* POST /authz/:id, POST /app/:id, POST /cert/:id                          *)
(***************************************************************************)
\* getAuthz; authz.status of a missing authorization throws, and the
\* framework answers 500; of an inherited function it is undefined
getAuthzResult(st, jwk, id) ==
  IF ~Registered(st, Thumbprint(jwk)) THEN unauthorized(st)
  ELSE IF Inherited(st, "authz", id)
       THEN Result(Response(201, TRUE, <<>>,
                            [kind |-> "authz", status |-> "undefined",
                             identifier |-> "undefined",
                             challenges |-> <<<<"undefined", 0>>>>]),
                   st)
  ELSE IF id \notin 1..Len(st.authz)
       THEN Result(Response(500, TRUE, <<>>, NoBody), st)
  ELSE Result(Response(201, TRUE, <<>>,
                       [kind |-> "authz", status |-> st.authz[id].status,
                        identifier |-> st.authz[id].name,
                        challenges |-> <<<<makeURL("authz", id), 0>>>>]),
              st)

getAuthz(jwk, id) ==
  /\ pc = "idle"
  /\ Commit(getAuthzResult(Store, jwk, id).st)
  /\ UNCHANGED <<now, autoChallenge, caOk, pc, cur>>
  /\ UNCHANGED <<nonceVars, callVars>>

\* getOrder; the 404 branch sets the status and returns without sending
getOrderResult(st, id) ==
  IF id \notin 1..Len(st.app)
  THEN Result(Response(404, FALSE, <<>>, NoBody), st)
  ELSE Result(Response(200, TRUE, <<>>, ApplicationMarshal(st.app[id], id)),
              st)

getOrder(id) ==
  /\ pc = "idle"
  /\ Commit(getOrderResult(Store, id).st)
  /\ UNCHANGED <<now, autoChallenge, caOk, pc, cur>>
  /\ UNCHANGED <<nonceVars, callVars>>

\* getCert as it would be if it found no certificate
getCertResultNotFound(st, jwk, id) ==
  [resp |-> [code |-> 404, sent |-> FALSE, location |-> <<>>,
             body |-> [kind |-> "none"]],
   st |-> st]

\* getCert; the 404 branch sets the status and returns without sending
getCertResult(st, jwk, id) ==
  IF ~Registered(st, Thumbprint(jwk)) THEN unauthorized(st)
  ELSE IF id \notin 1..Len(st.cert)
       THEN Result(Response(404, FALSE, <<>>, NoBody), st)
  ELSE Result(Response(200, TRUE, <<>>, st.cert[id].body), st)

getCert(jwk, id) ==
  /\ pc = "idle"
  /\ Commit(getCertResult(Store, jwk, id).st)
  /\ UNCHANGED <<now, autoChallenge, caOk, pc, cur>>
  /\ UNCHANGED <<nonceVars, callVars>>

\* Ids that requests name: those of the stored objects and one of none; for
\* authorizations and for fetch also the inherited id.
AppIds == 1..(Len(app) + 1)

AuthzIds == 0..(Len(authz) + 1)

CertIds == 1..(Len(cert) + 1)

FetchIds(type) ==
  CASE type = "reg" -> Thumbprints \cup {InheritedId(type)}
    [] type = "app" -> AppIds \cup {InheritedId(type)}
    [] type = "authz" -> AuthzIds
    [] type = "cert" -> CertIds \cup {InheritedId(type)}
    [] OTHER -> {1}

\* Challenge indexes that requests name.
Indexes == {0, 1}

Next ==
  \/ Tick
  \/ \E jwk \in JWKs, contact \in Contacts : newReg(jwk, contact)
  \/ \E r \in NewAppRequests : newApp(r.jwk, r.payload)
  \/ \E r \in FinalizeRequests, id \in AppIds : finalizeOrder(r.jwk, id, r.csr)
  \/ \E jwk \in JWKs, id \in AuthzIds, index \in Indexes :
       updateAuthz(jwk, id, index)
  \/ updateAuthzThen
  \/ \E type \in Types : \E id \in FetchIds(type) : fetch(type, id)
  \/ \E id \in AuthzIds, index \in Indexes : fetchChallenge(id, index)
  \/ \E jwk \in JWKs, id \in AuthzIds : getAuthz(jwk, id)
  \/ \E id \in AppIds : getOrder(id)
  \/ \E jwk \in JWKs, id \in CertIds : getCert(jwk, id)

Spec == Init /\ [][Next]_vars

(***************************************************************************)
(* The nonce pool and the nonce check of the transport.  The transport     *)
(* (lib/transport-server.js) is outside the sources at hand; the pool is   *)
(* modelled from section 4.1 of the specification, the check from 4.2.     *)
(***************************************************************************)
\* A nonce that the pool never issued.
UnknownNonce == 0

\* consume as it would be if it did not record the consumption
consumeWithoutRecord(iss, con, n) ==
  [ok |-> n \in iss /\ n \notin con, consumed |-> con]

\* consume(nonce): true iff the nonce was issued and is not consumed, and
\* then, in the same step, the nonce is consumed
consume(iss, con, n) ==
  IF n \in iss /\ n \notin con
  THEN [ok |-> TRUE, consumed |-> con \cup {n}]
  ELSE [ok |-> FALSE, consumed |-> con]

\* issue(): a fresh nonce, recorded as issued
issueNonce ==
  /\ nextNonce <= MaxNonce
  /\ issued' = issued \cup {nextNonce}
  /\ nextNonce' = nextNonce + 1
  /\ UNCHANGED <<consumed, post, passed>>
  /\ UNCHANGED <<engineVars, callVars>>

\* A POST arrives whose protected header carries nonce n
receivePost(s, n) ==
  /\ post[s].st = "free"
  /\ post' = [post EXCEPT ![s] = [nonce |-> n, st |-> "received"]]
  /\ UNCHANGED <<issued, consumed, nextNonce, passed>>
  /\ UNCHANGED <<engineVars, callVars>>

\* The transport consumes the nonce of the POST in slot s: the POST passes,
\* or is answered with bad-nonce
checkNonce(s) ==
  LET r == consume(issued, consumed, post[s].nonce)
  IN /\ post[s].st = "received"
     /\ consumed' = r.consumed
     /\ post' = [post EXCEPT ![s].st = IF r.ok THEN "passed" ELSE "badNonce"]
     /\ passed' = IF r.ok THEN [passed EXCEPT ![post[s].nonce] = @ + 1]
                  ELSE passed
     /\ UNCHANGED <<issued, nextNonce>>
     /\ UNCHANGED <<engineVars, callVars>>

\* The POST in slot s is answered
respondPost(s) ==
  /\ post[s].st \in {"passed", "badNonce"}
  /\ post' = [post EXCEPT ![s] = [nonce |-> 0, st |-> "free"]]
  /\ UNCHANGED <<issued, consumed, nextNonce, passed>>
  /\ UNCHANGED <<engineVars, callVars>>

NextNonce ==
  \/ issueNonce
  \/ \E s \in Slots, n \in issued \cup {UnknownNonce} : receivePost(s, n)
  \/ \E s \in Slots : checkNonce(s)
  \/ \E s \in Slots : respondPost(s)

SpecNonce == Init /\ [][NextNonce]_vars

(***************************************************************************)
(* The accounts and their orders: registration, update of a registration, *)
(* and new-app by both accounts with all the payloads of the model.        *)
(***************************************************************************)
NextReg ==
  \/ \E jwk \in JWKs, contact \in Contacts : newReg(jwk, contact)
  \/ \E jwk \in JWKs, id \in Thumbprints, payload \in UpdateRegPayloads :
       updateReg(jwk, id, payload)
  \/ \E r \in DatedNewAppRequests : newApp(r.jwk, r.payload)

SpecReg == Init /\ [][NextReg]_vars

(***************************************************************************)
(* Properties.                                                             *)
(***************************************************************************)
\* Every requirement of order o has status 'valid'.
AllValid(o) ==
  \A r \in 1..Len(o.requirements) : o.requirements[r].status = "valid"

\* The id of the authorization that requirement q points to.
AuthzOf(q) == q.url[2]

\* C1: between requests, an order that is pending or ready is ready if and
\* only if every one of its requirements is valid.
C1_ReadyIffAllValid ==
  pc = "idle" =>
    \A i \in 1..Len(app) :
      app[i].status \in {"pending", "ready"} =>
        (app[i].status = "ready" <=> AllValid(app[i]))

\* C2: no request moves an order's status backwards in the order pending,
\* ready, processing, valid; in particular a valid order stays valid.  (The
\* step processing -> ready of a failed finalize happens inside the handler
\* and is a step ready -> ready between requests.)
C2_StatusOnlyForward ==
  [][\A i \in 1..Len(app) :
       LET Rank(st) == CASE st = "pending" -> 0
                         [] st = "ready" -> 1
                         [] st = "processing" -> 2
                         [] st = "valid" -> 3
                         [] OTHER -> 4
       IN Rank(app'[i].status) >= Rank(app[i].status)]_vars

\* C3: an order carries a certificate URL only while its status is valid.
C3_CertificateOnlyWhenValid ==
  \A i \in 1..Len(app) :
    app[i].certificate # <<>> => app[i].status = "valid"

\* C4: a nonce is consumed at most once.  Only issued nonces are consumed;
\* for each nonce at most one POST passes the check, and exactly one once
\* any POST carrying an issued nonce has been checked; a POST is refused
\* only if its nonce is unknown or was consumed before.
C4_NonceConsumedOnce ==
  /\ consumed \subseteq issued
  /\ \A n \in 1..MaxNonce :
       /\ passed[n] <= 1
       /\ passed[n] = 1 <=> n \in consumed
  /\ \A s \in Slots :
       /\ post[s].st = "passed" => post[s].nonce \in consumed
       /\ post[s].st = "badNonce" =>
            post[s].nonce \notin issued \/ post[s].nonce \in consumed
       /\ (post[s].st \in {"passed", "badNonce"} /\ post[s].nonce \in issued)
            => passed[post[s].nonce] = 1

\* C4, the case: two POSTs carried the same issued nonce; one passed and the
\* other was refused.
C4_Witness ==
  /\ post[1].st = "passed"
  /\ post[2].st = "badNonce"
  /\ post[1].nonce = post[2].nonce
  /\ post[1].nonce \in issued

\* C5: once the clock has reached an authorization's expires instant, every
\* reader of its status sees 'invalid': fetch, get-authz, and the requirement
\* that new-app builds from it.
C5_ExpiredSeenInvalid ==
  pc = "idle" =>
    \A id \in 1..Len(authz) :
      now >= authz[id].expires =>
        /\ fetchResult(Store, "authz", id, now).resp.body.status = "invalid"
        /\ \A jwk \in JWKs :
             Registered(Store, Thumbprint(jwk)) =>
               getAuthzResult(Store, jwk, id).resp.body.status = "invalid"
        /\ asRequirement(authz[id], id).status = "invalid"

\* C6: when an order of an account has a requirement for a name whose
\* authorization is unexpired and not invalid, a new-app of that account
\* naming that name puts the same authorization URL into the new order.
C6_AuthzReused ==
  pc = "idle" =>
    \A req \in NewAppRequests :
      LET r == newAppResult(Store, req.jwk, req.payload, now, autoChallenge)
          names == req.payload.identifiers
          second == r.st.app[Len(r.st.app)]
      IN r.resp.code = 201 =>
           \A k \in 1..Len(names), i \in 1..Len(app) :
             \A q \in 1..Len(app[i].requirements) :
               LET first == app[i].requirements[q]
                   a == authz[AuthzOf(first)]
               IN (/\ app[i].thumbprint = Thumbprint(req.jwk)
                   /\ a.name = names[k]
                   /\ now < a.expires
                   /\ a.status # "invalid")
                    => second.requirements[k].url = first.url

\* C6, the case: two orders of one account name the same identifier and
\* share the authorization, which is unexpired and not invalid.
C6_Witness ==
  \E i, j \in 1..Len(app) :
    /\ i < j
    /\ app[i].thumbprint = app[j].thumbprint
    /\ \E q \in 1..Len(app[i].requirements), k \in 1..Len(app[j].requirements) :
         /\ app[i].requirements[q].url = app[j].requirements[k].url
         /\ now < authz[AuthzOf(app[i].requirements[q])].expires
         /\ authz[AuthzOf(app[i].requirements[q])].status # "invalid"

\* update-authz is about to send its response.
AboutToRespond ==
  pc = "updateAuthz" /\ updateAuthzChain[cur.step] = "respond"

\* C7: when update-authz sends its response, the hook, the recomputation of
\* the authorization and the update of the orders have run, in this order;
\* the store holds their results (the challenge as the hook left it, the
\* orders as updateAppsFor leaves them), the response is the 200 with the
\* updated challenge, and sending it changes nothing in the store.
C7_RespondsAfterUpdates ==
  [][AboutToRespond =>
       /\ cur.done = <<"hook", "update", "apps">>
       /\ authz[cur.id].challengeObj[cur.index + 1] = "valid"
       /\ authz[cur.id].challenges = authz[cur.id].challengeObj
       /\ app = updateAppsFor(app, authz[cur.id], cur.id)
       /\ updateAuthzResponse(Store, cur.id, cur.index).code = 200
       /\ updateAuthzResponse(Store, cur.id, cur.index).body.status = "valid"
       /\ UNCHANGED <<reg, app, authz, cert, nextSerialNumber>>]_vars

\* C7, the case: the response is about to be sent and an order depends on
\* the authorization.
C7_Witness ==
  /\ AboutToRespond
  /\ \E i \in 1..Len(app) :
       /\ app[i].status = "ready"
       /\ \E q \in 1..Len(app[i].requirements) :
            AuthzOf(app[i].requirements[q]) = cur.id

\* C8: with the auto challenge, when update-authz on challenge 0 of an
\* unexpired authorization responds, the challenge is valid, the
\* authorization is valid, and no order of the account whose requirements
\* are all valid is still pending.
C8_AutoChallengeCompletes ==
  (AboutToRespond /\ autoChallenge /\ cur.index = 0
     /\ now < authz[cur.id].expires) =>
    /\ authz[cur.id].challenges[1] = "valid"
    /\ authz[cur.id].status = "valid"
    /\ \A i \in 1..Len(app) :
         (app[i].thumbprint = authz[cur.id].thumbprint /\ AllValid(app[i]))
           => app[i].status # "pending"

\* C8, the case: the response is about to be sent for an unexpired
\* authorization, and an order with two requirements has become ready.
C8_Witness ==
  /\ AboutToRespond /\ autoChallenge /\ cur.index = 0
  /\ now < authz[cur.id].expires
  /\ \E i \in 1..Len(app) :
       /\ app[i].thumbprint = authz[cur.id].thumbprint
       /\ Len(app[i].requirements) = 2
       /\ app[i].status = "ready"

\* C9: a finalize by a registered account on a stored order with a CSR that
\* checkCSR accepts, the CA issuing, stores exactly one new certificate whose
\* body is what issueCRT returns, sets the order's certificate to its URL and
\* status to valid, answers 201 with Location the order's URL, and get-cert
\* then returns that body.
C9_FinalizeIssues ==
  pc = "idle" =>
    \A req \in FinalizeRequests, id \in 1..Len(app) :
      LET csr == CsrTable[req.csr]
          r == finalizeOrderResult(Store, req.jwk, id, csr, now,
                                   autoChallenge, caOk)
          certId == Len(cert) + 1
      IN (Registered(Store, Thumbprint(req.jwk)) /\ csrError(csr) = "" /\ caOk)
           =>
           /\ Len(r.st.cert) = Len(cert) + 1
           /\ SubSeq(r.st.cert, 1, Len(cert)) = cert
           /\ r.st.cert[certId].body = issueCRT(csr, nextSerialNumber)
           /\ r.st.app[id].certificate = makeURL("cert", certId)
           /\ r.st.app[id].status = "valid"
           /\ r.resp.code = 201 /\ r.resp.sent
           /\ r.resp.location = makeURL("app", id)
           /\ getCertResult(r.st, req.jwk, certId).resp
                = Response(200, TRUE, <<>>, r.st.cert[certId].body)

\* C9, the case: an order was finalized; it is valid and get-cert returns
\* the certificate it points to.
C9_Witness ==
  \E i \in 1..Len(app) :
    /\ app[i].status = "valid"
    /\ app[i].certificate = makeURL("cert", 1)
    /\ Len(cert) = 1
    /\ getCertResult(Store, "jwkA", 1).resp.code = 200

\* C10: a finalize by a registered account on a stored order whose CSR is
\* missing, does not parse, has no names or has a subjectAltName that is not
\* a dNSName is answered 400 malformed, leaves the order ready and changes
\* nothing else: no certificate, no authorization, no other order.
C10_BadCsrRejected ==
  pc = "idle" =>
    \A req \in FinalizeRequests, id \in 1..Len(app) :
      LET csr == CsrTable[req.csr]
          r == finalizeOrderResult(Store, req.jwk, id, csr, now,
                                   autoChallenge, caOk)
      IN (Registered(Store, Thumbprint(req.jwk))
            /\ csr \in {csrMissing, csrGarbage, csrNoNames, csrIpSAN})
           =>
           /\ r.resp.code = 400
           /\ r.resp.body = problem("malformed")
           /\ r.st = [Store EXCEPT !.app[id].status = "ready"]

\* C11: update-reg by a registered account at its own URL: with an
\* agreement that differs from the terms the answer is 400 malformed and the
\* store is as before (no new contact either); otherwise the answer is 200
\* and the registration carries the contact and the agreement of the payload.
C11_WrongAgreementChangesNothing ==
  pc = "idle" =>
    \A jwk \in JWKs, payload \in UpdateRegPayloads :
      LET tp == Thumbprint(jwk)
          r == updateRegResult(Store, jwk, tp, payload)
      IN Registered(Store, tp) =>
           IF payload.agreement \notin {"", Terms}
           THEN /\ r.resp.code = 400
                /\ r.resp.body = problem("malformed")
                /\ r.st = Store
           ELSE /\ r.resp.code = 200
                /\ r.st.reg[tp].contact =
                     (IF payload.contact # "" THEN payload.contact
                      ELSE reg[tp].contact)
                /\ r.st.reg[tp].agreement =
                     (IF payload.agreement # "" THEN payload.agreement
                      ELSE reg[tp].agreement)

\* C12: update-reg at /reg/x by a key with thumbprint y # x, or by a key
\* without registration, is answered 401 unauthorized and changes nothing.
C12_UpdateRegBoundToAccount ==
  pc = "idle" =>
    \A jwk \in JWKs, id \in Thumbprints, payload \in UpdateRegPayloads :
      LET r == updateRegResult(Store, jwk, id, payload)
      IN (~Registered(Store, Thumbprint(jwk)) \/ id # Thumbprint(jwk)) =>
           /\ r.resp = Response(401, TRUE, <<>>, problem("unauthorized"))
           /\ r.st = Store

\* C12, the case: both accounts are registered, one has updated its own
\* registration, and its update of the other's is refused.
C12_Witness ==
  /\ DOMAIN reg = Thumbprints
  /\ reg["tpA"].contact = "mailto:b"
  /\ reg["tpB"].contact = "mailto:a"
  /\ updateRegResult(Store, "jwkA", "tpB",
                     [contact |-> "mailto:b", agreement |-> Terms]).resp.code
       = 401

\* C15: new-reg with a key that has no registration answers 201 and stores
\* a registration with the key's thumbprint as id, the key and the contact of
\* the request; every stored registration has the thumbprint of its key as
\* id, and no step removes a registration or changes its id or key.
C15_ThumbprintIdentity ==
  [][/\ \A jwk \in JWKs, contact \in Contacts :
          LET tp == Thumbprint(jwk)
              r == newRegResult(Store, jwk, contact)
          IN ~Registered(Store, tp) =>
               /\ r.resp.code = 201
               /\ DOMAIN r.st.reg = DOMAIN reg \cup {tp}
               /\ r.st.reg[tp].id = tp
               /\ r.st.reg[tp].key = jwk
               /\ r.st.reg[tp].contact = contact
     /\ \A t \in DOMAIN reg :
          /\ t \in DOMAIN reg'
          /\ reg'[t].id = reg[t].id
          /\ reg'[t].key = reg[t].key
     /\ \A t \in DOMAIN reg' :
          /\ reg'[t].id = t
          /\ Thumbprint(reg'[t].key) = reg'[t].id]_vars

\* C15, the case: both keys are registered and one registration has been
\* updated since.
C15_Witness ==
  /\ DOMAIN reg = Thumbprints
  /\ reg["tpB"].agreement = Terms
  /\ reg["tpB"].key = "jwkB"

C17_ExistingRegistrationConflict ==
  pc = "idle" =>
    \A jwk \in JWKs, contact \in Contacts :
      LET r == newRegResult(Store, jwk, contact)
      IN Registered(Store, Thumbprint(jwk)) =>
           r.resp.code = 409 /\ r.resp.location # <<>>

\* A new-app payload of the model is well-formed: it has identifiers, and
\* its dates, where present, parse.
WellFormed(payload) ==
  /\ payload.hasIdentifiers
  /\ payload.notBefore # "" => IsDate(payload.notBefore)
  /\ payload.notAfter # "" => IsDate(payload.notAfter)

\* C18: a new-app with a well-formed payload from a registered account
\* answers 201 with Location the new order's URL and the marshalled order,
\* and stores one more order: pending, owned by the account, with one
\* requirement per identifier in request order, each of type authorization
\* and pointing at a stored authorization of that account and name; the
\* dates of the payload are kept as they came.
C18_NewAppStoresOrder ==
  pc = "idle" =>
    \A req \in DatedNewAppRequests :
      LET tp == Thumbprint(req.jwk)
          names == req.payload.identifiers
          r == newAppResult(Store, req.jwk, req.payload, now, autoChallenge)
          id == Len(app) + 1
          o == r.st.app[id]
      IN (Registered(Store, tp) /\ WellFormed(req.payload)) =>
           /\ r.resp.code = 201 /\ r.resp.sent
           /\ r.resp.location = makeURL("app", id)
           /\ r.resp.body = ApplicationMarshal(o, id)
           /\ Len(r.st.app) = id
           /\ SubSeq(r.st.app, 1, Len(app)) = app
           /\ o.status = "pending"
           /\ o.thumbprint = tp
           /\ o.notBefore = req.payload.notBefore
           /\ o.notAfter = req.payload.notAfter
           /\ r.resp.body.notBefore = req.payload.notBefore
           /\ r.resp.body.notAfter = req.payload.notAfter
           /\ Len(o.requirements) = Len(names)
           /\ \A k \in 1..Len(names) :
                LET q == o.requirements[k]
                IN /\ q.type = "authorization"
                   /\ q.url[1] = "authz"
                   /\ AuthzOf(q) \in 1..Len(r.st.authz)
                   /\ r.st.authz[AuthzOf(q)].thumbprint = tp
                   /\ r.st.authz[AuthzOf(q)].name = names[k]

\* C18, the case: an order with dates and an order with two requirements
\* for two names are stored.
C18_Witness ==
  \E i, j \in 1..Len(app) :
    /\ app[i].notBefore # "" /\ app[i].notAfter # ""
    /\ Len(app[i].requirements) = 1
    /\ Len(app[j].requirements) = 2
    /\ authz[AuthzOf(app[j].requirements[1])].name = "a.test"
    /\ authz[AuthzOf(app[j].requirements[2])].name = "b.test"

C13_RegFetchDenied ==
  pc = "idle" =>
    \A id \in FetchIds("reg") :
      fetchResult(Store, "reg", id, now).resp
        = Response(401, TRUE, <<>>, problem("unauthorized"))

\* C14: GET /{type}/{id} for a type other than reg answers 200 with the
\* marshalled view of the entity stored under (type, id) when there is one,
\* and 404 when there is none.
C14_FetchReturnsStored ==
  pc = "idle" =>
    \A type \in Types \ {"reg"} :
      \A id \in FetchIds(type) :
        LET r == fetchResult(Store, type, id, now)
        IN IF Stored(Store, type, id)
           THEN /\ r.resp.code = 200
                /\ r.resp.body =
                     CASE type = "app" -> ApplicationMarshal(app[id], id)
                       [] type = "authz" ->
                            AuthorizationMarshal(
                              AuthorizationUpdate(authz[id], now), id)
                       [] OTHER -> cert[id].body
           ELSE r.resp.code = 404

\* C20: update-authz answers 404 when no authorization is stored under the
\* id or the index is no index of its challenges, and otherwise 401 when the
\* key has no registration or its thumbprint is not the authorization's; in
\* each of these cases the request starts nothing and the store is as before.
C20_UpdateAuthzRefusals ==
  [][\A jwk \in JWKs, id \in AuthzIds, index \in Indexes :
       LET c == updateAuthzChecks(Store, jwk, id, index)
           missing == \/ id \notin 1..Len(authz)
                      \/ ~IndexIn(index, authz[id].challenges)
           stranger == \/ ~Registered(Store, Thumbprint(jwk))
                       \/ Thumbprint(jwk) # authz[id].thumbprint
       IN /\ missing => c = Response(404, TRUE, <<>>, NoBody)
          /\ (~missing /\ stranger) =>
               c = Response(401, TRUE, <<>>, problem("unauthorized"))
          /\ (~missing /\ ~stranger) => c.code = 0
          /\ ((missing \/ stranger) /\ updateAuthz(jwk, id, index)) =>
               UNCHANGED vars]_vars

(***************************************************************************)
(* checkCSR over a family of CSRs.                                         *)
(***************************************************************************)
\* A value that DNS_RE does not match
NotDNS == "-bad"

\* Elements of csr.subject.attributes
SubjectAttributes ==
  {CN("a.test"), CN("A.TEST"), CN(NotDNS),
   [name |-> "organizationName", value |-> "org"]}

\* Elements of extn.altNames: dNSName is type 2, iPAddress is type 7
AltNames ==
  {[type |-> 2, value |-> "a.test"], [type |-> 2, value |-> "b.test"],
   [type |-> 2, value |-> NotDNS], [type |-> 7, value |-> "10.0.0.1"]}

\* The sequences of at most two elements of S
UpTo2(S) == {<<>>} \cup {<<x>> : x \in S} \cup {<<x, y>> : x, y \in S}

\* Values of attr.extensions: nothing, a subjectAltName, a keyUsage, or both
ExtensionLists ==
  {<<>>, <<[name |-> "keyUsage", altNames |-> <<>>]>>}
    \cup {<<[name |-> "subjectAltName", altNames |-> alt]>> :
            alt \in UpTo2(AltNames)}
    \cup {<<[name |-> "keyUsage", altNames |-> <<>>],
            [name |-> "subjectAltName", altNames |-> alt]>> :
            alt \in UpTo2(AltNames)}

\* Values of csr.attributes: at most one extensionRequest, possibly after a
\* challengePassword
AttributeLists ==
  {<<>>, <<[name |-> "challengePassword", extensions |-> <<>>]>>}
    \cup {<<[name |-> "extensionRequest", extensions |-> e]>> :
            e \in ExtensionLists}
    \cup {<<[name |-> "challengePassword", extensions |-> <<>>],
            [name |-> "extensionRequest", extensions |-> e]>> :
            e \in ExtensionLists}

\* The CSRs that parse
CSRs ==
  {[kind |-> "csr", subject |-> s, attributes |-> a] :
     s \in UpTo2(SubjectAttributes), a \in AttributeLists}

\* The entries of the subjectAltName extensions a CSR requests
RequestedAltNames(csr) ==
  {san \in AltNames :
     \E i \in 1..Len(csr.attributes) :
       \E j \in 1..Len(csr.attributes[i].extensions) :
         \E k \in 1..Len(csr.attributes[i].extensions[j].altNames) :
           csr.attributes[i].extensions[j].altNames[k] = san}

\* The rules of checkCSR, in the order the function visits them
BreaksRule(csr) ==
  \/ \E i \in 1..Len(csr.subject) : csr.subject[i].name # "commonName"
  \/ Len(csr.subject) > 1
  \/ \E i \in 1..Len(csr.subject) : ~MatchesDNS(Lower(csr.subject[i].value))
  \/ \E i \in 1..Len(csr.attributes) :
       csr.attributes[i].name # "extensionRequest"
  \/ \E i \in 1..Len(csr.attributes) :
       \E j \in 1..Len(csr.attributes[i].extensions) :
         csr.attributes[i].extensions[j].name # "subjectAltName"
  \/ \E san \in RequestedAltNames(csr) : san.type # 2
  \/ \E san \in RequestedAltNames(csr) : ~MatchesDNS(Lower(san.value))

\* The commonName and the dNSName entries of a CSR, lowercased
RequestedNames(csr) ==
  {Lower(csr.subject[i].value) : i \in 1..Len(csr.subject)}
    \cup {Lower(san.value) : san \in RequestedAltNames(csr)}

\* A call that returned value
Returned(value) == [kind |-> "returned", value |-> value]

\* A program that calls checkCSR on one CSR
InitPki == InitEngine /\ InitNonce /\ arg \in CSRs /\ ret = NoCall

checkCSRCall ==
  /\ arg.kind = "csr"
  /\ ret = NoCall
  /\ ret' = Returned(checkCSR(arg))
  /\ UNCHANGED <<engineVars, nonceVars, arg>>

NextPki == checkCSRCall

SpecPki == InitPki /\ [][NextPki]_vars

\* C21: checkCSR answers an error and no names for every CSR that breaks a
\* rule (a subject attribute other than commonName, more than one subject
\* attribute, a commonName or dNSName that is not a DNS name, an attribute
\* other than extensionRequest, an extension other than subjectAltName, a
\* SAN entry that is not a dNSName) and for a CSR without names; for every
\* other CSR it answers exactly the commonName and the dNSName entries.
C21_CheckCsrRules ==
  (arg.kind = "csr" /\ ret # NoCall) =>
    LET r == ret.value
    IN IF BreaksRule(arg) \/ RequestedNames(arg) = {}
       THEN r.error # "" /\ r.names = <<>>
       ELSE /\ r.error = ""
            /\ {r.names[i] : i \in 1..Len(r.names)} = RequestedNames(arg)

\* C22: every request is answered: whatever the handler decides, it sends a
\* response with a status, and get-order, get-cert and finalize on an id
\* that names nothing send 404.
C22_EveryRequestAnswered ==
  pc = "idle" =>
    /\ \A jwk \in JWKs, contact \in Contacts :
         newRegResult(Store, jwk, contact).resp.sent
    /\ \A r \in NewAppRequests :
         newAppResult(Store, r.jwk, r.payload, now, autoChallenge).resp.sent
    /\ \A type \in Types : \A id \in FetchIds(type) :
         fetchResult(Store, type, id, now).resp.sent
    /\ \A id \in AuthzIds, index \in Indexes :
         fetchChallengeResult(Store, id, index, now).resp.sent
    /\ \A jwk \in JWKs, id \in AuthzIds :
         getAuthzResult(Store, jwk, id).resp.sent
    /\ \A id \in AppIds :
         LET resp == getOrderResult(Store, id).resp
         IN resp.sent /\ (id \notin 1..Len(app) => resp.code = 404)
    /\ \A jwk \in JWKs, id \in CertIds :
         LET resp == getCertResult(Store, jwk, id).resp
         IN /\ resp.sent
            /\ (Registered(Store, Thumbprint(jwk)) /\ id \notin 1..Len(cert))
                 => resp.code = 404
    /\ \A r \in FinalizeRequests, id \in AppIds :
         LET resp == finalizeOrderResult(Store, r.jwk, id, CsrTable[r.csr],
                                         now, autoChallenge, caOk).resp
         IN /\ resp.sent
            /\ (Registered(Store, Thumbprint(r.jwk)) /\ id \notin 1..Len(app))
                 => resp.code = 404

\* C23: a fetch of challenge index of a stored authorization answers the
\* status that the challenge has (valid only when an update-authz completed
\* it) and changes the status of no challenge, neither of the challenge
\* objects nor of their JSON held by the authorization.
C23_FetchChallengeUnmodified ==
  pc = "idle" =>
    \A id \in 1..Len(authz), index \in Indexes :
      IndexIn(index, authz[id].challenges) =>
        LET r == fetchChallengeResult(Store, id, index, now)
            updated == AuthorizationUpdate(authz[id], now)
        IN /\ r.resp.code = 200
           /\ r.resp.body.status = authz[id].challengeObj[index + 1]
           /\ r.st.authz[id].challengeObj = authz[id].challengeObj
           /\ r.st.authz[id].challenges = updated.challenges

(***************************************************************************)
(* ACMEJose.verify over a family of flattened and non-flattened JWS.       *)
(***************************************************************************)
\* Account keys: an RSA key of 2048 bits and one of 1024 bits
Keys == {[name |-> "keyA", length |-> 2048], [name |-> "keyS", length |-> 1024]}

\* header.jwk when the header has none
NoKey == [name |-> "", length |-> 0]

\* The account URLs that kid may carry: "" stands for no kid, "kidX" for a
\* URL that names no account
Kids == {"", "kidA", "kidS", "kidX"}

\* getKey(kid): the key of the account, NoKey on a miss
getKey(kid) ==
  IF kid = "kidA" THEN [name |-> "keyA", length |-> 2048]
  ELSE IF kid = "kidS" THEN [name |-> "keyS", length |-> 1024]
  ELSE NoKey

\* The protected headers of the model ("" stands for a field left out or
\* empty)
Headers ==
  [alg : {"", "RS256"}, kid : Kids, jwk : Keys \cup {NoKey},
   nonce : {"", "nonce1"}, url : {"", "/new-reg"}]

\* The calls of verify: the mode of the ACMEJose object, whether the JWS has
\* protected, payload and signature, its header, and the key that signed it.
\* Calls that differ only in fields verify does not reach are left out.
VerifyCalls ==
  {c \in [kind : {"jws"}, acmeVersion : {"le", "ietf-draft"},
          flattened : BOOLEAN, header : Headers, signedBy : Keys] :
     ~c.flattened => (c.header.url = "" /\ c.header.nonce = "")}

\* The key verify checks the signature with: that of kid when the header
\* has a kid, else the header's jwk
HeaderKey(header) ==
  IF header.kid # "" THEN getKey(header.kid) ELSE header.jwk

\* ACMEJose.verify: "" when the promise resolves, else the message of the
\* error it rejects with
verify(acmeVersion, jws) ==
  LET header == jws.header
      key == HeaderKey(header)
  IN IF ~jws.flattened THEN "Non-flattened JWS"
     ELSE IF header.alg = "" \/ ~(header.kid # "" \/ header.jwk # NoKey)
             \/ header.nonce = ""
          THEN "Missing field in protected header"
     ELSE IF acmeVersion # "le" /\ header.url = ""
          THEN "Header must provide url"
     ELSE IF key = NoKey THEN "no key found"
     ELSE IF acmeVersion = "le" /\ key.length < 2048 THEN "key too small"
     ELSE IF key # jws.signedBy THEN "no key found"
     ELSE ""

\* A program that calls verify on one JWS
InitJose == InitEngine /\ InitNonce /\ arg \in VerifyCalls /\ ret = NoCall

verifyCall ==
  /\ arg.kind = "jws"
  /\ ret = NoCall
  /\ ret' = Returned(verify(arg.acmeVersion, arg))
  /\ UNCHANGED <<engineVars, nonceVars, arg>>

NextJose == verifyCall

SpecJose == InitJose /\ [][NextJose]_vars

\* C24: verify accepts a JWS exactly when it is flattened, its header has a
\* non-empty alg, a nonce, exactly one of jwk and kid and, in ietf-draft
\* mode, a url, the key it names exists, signed the JWS and, in le mode,
\* has at least 2048 bits; in le mode no url is needed.
C24_VerifyHeaderRules ==
  (arg.kind = "jws" /\ ret # NoCall) =>
    LET header == arg.header
    IN (ret.value = "")
         <=> /\ arg.flattened
             /\ header.alg # ""
             /\ header.nonce # ""
             /\ (header.kid # "") # (header.jwk # NoKey)
             /\ (arg.acmeVersion # "le" => header.url # "")
             /\ HeaderKey(header) # NoKey
             /\ HeaderKey(header) = arg.signedBy
             /\ (arg.acmeVersion = "le" => HeaderKey(header).length >= 2048)

(***************************************************************************)
(* One account that has certificates issued one after the other.           *)
(***************************************************************************)
\* The number of certificates issued in a run
MaxSerials == 260

NextSerial ==
  \/ newReg("jwkA", "mailto:a")
  \/ newApp("jwkA", NewAppPayload(TRUE, <<"a.test">>))
  \/ finalizeOrderWithin("jwkA", 1, 3, MaxSerials)

SpecSerial == Init /\ [][NextSerial]_vars

\* The number that a string of hex digits denotes
RECURSIVE HexValue(_)
HexValue(ser) ==
  IF Len(ser) = 0 THEN 0
  ELSE 16 * HexValue(SubSeq(ser, 1, Len(ser) - 1))
         + (CHOOSE d \in 0..15 : HexDigits[d + 1] = ser[Len(ser)])

\* C25: the certificates in the order of their issuance carry strictly
\* increasing serial numbers, no two of them the same, each a string of hex
\* digits of even length, and all below the number the next one will get.
C25_SerialsIncrease ==
  \A value \in {[i \in 1..Len(cert) |-> HexValue(cert[i].body.serial)]} :
     /\ \A i, j \in 1..Len(cert) :
          i < j => /\ value[i] < value[j]
                   /\ cert[i].body.serial # cert[j].body.serial
     /\ \A i \in 1..Len(cert) :
          /\ Len(cert[i].body.serial) % 2 = 0
          /\ \A k \in 1..Len(cert[i].body.serial) :
               \E d \in 1..16 : HexDigits[d] = cert[i].body.serial[k]
          /\ value[i] < nextSerialNumber

\* Certificates with a one-digit, a two-digit and a three-digit serial
C25_Witness ==
  /\ Len(cert) >= 256
  /\ cert[1].body.serial = <<"0", "1">>
  /\ cert[16].body.serial = <<"1", "0">>
  /\ cert[256].body.serial = <<"0", "1", "0", "0">>

(***************************************************************************)
(* Two accounts that order, validate and finalize.                         *)
(***************************************************************************)
\* The new-app requests of the two accounts
OrderRequests ==
  {[jwk |-> k, payload |-> NewAppPayload(TRUE, ids)] :
     k \in JWKs, ids \in {<<"a.test">>, <<>>}}
    \cup {[jwk |-> "jwkA",
           payload |-> NewAppPayload(TRUE, <<"a.test", "b.test">>)]}

NextOrders ==
  \/ Tick
  \/ \E jwk \in JWKs : newReg(jwk, "mailto:a")
  \/ \E r \in OrderRequests : newApp(r.jwk, r.payload)
  \/ \E jwk \in JWKs, id \in 1..Len(app) : finalizeOrder(jwk, id, 3)
  \/ \E jwk \in JWKs, id \in 1..Len(authz) : updateAuthz(jwk, id, 0)
  \/ updateAuthzThen

SpecOrders == Init /\ [][NextOrders]_vars

\* C26: the step of update-authz that updates the orders for authorization
\* cur.id leaves registrations, certificates and authorizations as they
\* are, leaves the orders of other accounts as they are, changes of an order
\* of the account only the requirements whose url is that of the
\* authorization (their status becomes the authorization's) and the order's
\* status, and changes a status only from pending to ready.
C26_UpdateAppsFrame ==
  [][(pc = "updateAuthz" /\ updateAuthzChain[cur.step] = "apps"
        /\ cur' # cur) =>
       /\ reg' = reg
       /\ cert' = cert
       /\ authz' = authz
       /\ Len(app') = Len(app)
       /\ \A i \in 1..Len(app) :
            LET o == app[i]
                p == app'[i]
                a == authz[cur.id]
            IN /\ o.thumbprint # a.thumbprint => p = o
               /\ [p EXCEPT !.requirements = o.requirements,
                            !.status = o.status] = o
               /\ Len(p.requirements) = Len(o.requirements)
               /\ \A r \in 1..Len(o.requirements) :
                    IF o.requirements[r].url = makeURL("authz", cur.id)
                    THEN p.requirements[r] =
                           [o.requirements[r] EXCEPT !.status = a.status]
                    ELSE p.requirements[r] = o.requirements[r]
               /\ p.status # o.status =>
                    (o.status = "pending" /\ p.status = "ready")]_vars

\* The orders of account A have just been updated for an authorization
\* that became valid: A's pending order that also names another, pending
\* authorization carries the new status in one requirement only, and the
\* pending order of account B, which has nothing unfulfilled, is still
\* pending.
C26_Witness ==
  /\ pc = "updateAuthz"
  /\ updateAuthzChain[cur.step] = "respond"
  /\ authz[cur.id].thumbprint = "tpA"
  /\ authz[cur.id].status = "valid"
  /\ \E j, k \in 1..Len(app) :
       /\ app[j].thumbprint = "tpA" /\ app[j].status = "pending"
       /\ \E r \in 1..Len(app[j].requirements) :
            /\ app[j].requirements[r].url = makeURL("authz", cur.id)
            /\ app[j].requirements[r].status = "valid"
       /\ \E r \in 1..Len(app[j].requirements) :
            /\ app[j].requirements[r].url # makeURL("authz", cur.id)
            /\ app[j].requirements[r].status = "pending"
       /\ app[k].thumbprint = "tpB" /\ app[k].status = "pending"
       /\ AllValid(app[k])

\* C27: the store never holds two authorizations of the same account
\* thumbprint for the same name, whatever new-app and finalize requests the
\* two accounts have made and whatever update-authz is in progress.
C27_OneAuthzPerAccountAndName ==
  \A i, j \in 1..Len(authz) :
    (authz[i].thumbprint = authz[j].thumbprint /\ authz[i].name = authz[j].name)
      => i = j

\* Both accounts ordered a.test and a finalize of account A named a.test,
\* for which it found A's authorization, and b.test, for which it made one.
C27_Witness ==
  /\ Len(app) = 2
  /\ Len(cert) = 1
  /\ Len(authz) = 3
  /\ authz[1].name = "a.test"
  /\ authz[2].name = "a.test"
  /\ authz[1].thumbprint # authz[2].thumbprint
  /\ authz[3].thumbprint = "tpA"
  /\ authz[3].name = "b.test"

\* C28: a finalize stores a certificate or sets an order valid only when
\* the order belongs to the account that asks and all its requirements are
\* valid at that moment; in particular a pending order with an unfulfilled
\* requirement is not made valid.
C28_IssuedOnlyForOwnValidatedOrder ==
  pc = "idle" =>
    \A jwk \in JWKs, id \in 1..Len(app), c \in 1..Len(CsrTable) :
      LET r == finalizeOrderResult(Store, jwk, id, CsrTable[c], now,
                                   autoChallenge, caOk)
      IN (Len(r.st.cert) > Len(cert)
            \/ (r.st.app[id].status = "valid" /\ app[id].status # "valid"))
           => /\ app[id].thumbprint = Thumbprint(jwk)
              /\ AllValid(app[id])

(***************************************************************************)
(* A server whose CA key and certificate may fail to load.                 *)
(***************************************************************************)
\* The server constructed with options.caKey and options.caCert that are
\* usable PEM or not
InitCA ==
  /\ now = 0
  /\ autoChallenge = TRUE
  /\ caOk \in BOOLEAN
  /\ reg = << >>
  /\ app = << >>
  /\ authz = << >>
  /\ cert = << >>
  /\ nextSerialNumber = 1
  /\ pc = "idle"
  /\ cur = None
  /\ InitNonce
  /\ InitCall

\* Requests of account A; a finalize is made while few serial numbers have
\* been taken
NextCA ==
  \/ Tick
  \/ newReg("jwkA", "mailto:a")
  \/ \E r \in NewAppRequests : newApp(r.jwk, r.payload)
  \/ \E r \in FinalizeRequests, id \in AppIds :
       nextSerialNumber <= MaxCerts + 1 /\ finalizeOrder(r.jwk, id, r.csr)
  \/ \E id \in 1..Len(authz) : updateAuthz("jwkA", id, 0)
  \/ updateAuthzThen

SpecCA == InitCA /\ [][NextCA]_vars

\* C29: no stored order has the status processing once the finalize that
\* wrote it has ended, be it with a certificate, with 400 or with a failure
\* of the CA: the order is then valid or ready.
C29_ProcessingIsTransient ==
  \A i \in 1..Len(app) : app[i].status # "processing"

\* C30: while no handler is running, every requirement of every stored
\* order has the status of the authorization its url names.
C30_RequirementMirrorsAuthz ==
  pc = "idle" =>
    \A i \in 1..Len(app) :
      \A r \in 1..Len(app[i].requirements) :
        LET q == app[i].requirements[r]
        IN /\ AuthzOf(q) \in 1..Len(authz)
           /\ q.status = authz[AuthzOf(q)].status

====
